---- MODULE Spec2Model ----
(***************************************************************************)
(* fpl-planner: the squad optimiser.                                       *)
(*                                                                         *)
(*   optimiser/expected_points.py  scoring variants and get_ep_model       *)
(*   optimiser/solver.py           build_squad_lp, extract_solution,       *)
(*                                 pick_starting_xi                        *)
(*   scripts/optimise.py           main(): one optimisation run            *)
(*                                                                         *)
(* Units.  now_cost is kept as the API gives it, in tenths of a million;   *)
(* the budget is in millions, so the Budget row sum(now_cost/10) <= budget *)
(* is checked as sum(now_cost) <= 10*budget.  ep_next, form and            *)
(* points_per_game are in tenths of a point and exp_pts in hundredths, so  *)
(* that 0.6*form + 0.4*ppg is the integer 6*form + 4*ppg.                  *)
(*                                                                         *)
(* Player ids are unique (they are the keys of the variable dictionary x   *)
(* of build_squad_lp), and the rows of a frame are kept as a sequence of   *)
(* ids.                                                                    *)
(*                                                                         *)
(* The variables pc .. fixtures are the local names of the run of main()   *)
(* that is on the processor.  Where two runs are under way, peer holds     *)
(* those of the other and Switch hands the processor over; the files on    *)
(* disk belong to neither.                                                 *)
(*                                                                         *)
(*   src/fpl/api/client.py               RateLimiter, FPLClient._request   *)
(*   scripts/collect_current_season.py   main_async                        *)
(*   scripts/update_latest_gameweeks.py  main_async                        *)
(*                                                                         *)
(* Time is counted in ticks of the clock that datetime.now() reads; two    *)
(* readings may fall on the same tick.                                     *)
(***************************************************************************)
EXTENDS Integers, Sequences, FiniteSets, TLC

VARIABLES
    pc,              \* position of main(): start, loaded, scored, solved, extracted, picked, done, aborted
    players,         \* the players frame: id -> row
    cfg,             \* the configuration read by load_config
    exp_pts,         \* the exp_pts column, id -> hundredths of a point
    status,          \* pulp.LpStatus[status] of the solve, "" before it
    x,               \* value() of each decision variable, id -> NoValue or tenths
    squad,           \* the squad frame, a sequence of ids
    xi,              \* the starting XI frame, a sequence of ids
    formation_used,  \* second result of pick_starting_xi
    is_captain,      \* the is_captain column of xi
    outputs,         \* the files written under output_dir
    summary,         \* the content of summary.json
    ep_model,        \* the class of the scoring model in use, "" if none
    error,           \* the exception that ended the run, "" if none
    steps,           \* the steps of the run taken so far, in order
    fixtures,        \* the fixtures frame: fixtures.json, empty without the file
    peer,            \* the variables of a second run of main() that is not on the processor
    disk,            \* the files under each output directory
    clock,           \* datetime.now(), in ticks
    requests,        \* RateLimiter.requests: the deque of timestamps
    coro,            \* the coroutines that use the limiter or the client: id -> frame
    client,          \* FPLClient.client: "None" or "AsyncClient"
    gets,            \* the HTTP GETs issued so far
    api,             \* what the FPL API serves
    stored,          \* data/current/player_histories: player id -> stored history
    last_collected,  \* the last collected gameweek kept by DataStorage, 0 if none
    job              \* the local names of the collection script that is running

runVars == <<pc, players, cfg, exp_pts, status, x, squad, xi, formation_used,
             is_captain, outputs, summary, ep_model, error, steps, fixtures, peer, disk>>

collectVars == <<clock, requests, coro, client, gets, api, stored, last_collected, job>>

vars == <<runVars, collectVars>>

----------------------------------------------------------------------------
(* Bounds of the model *)

\* how many players of ExtraCatalog may join a pool
MaxExtra == 1

\* how many rows of no known position a squad given to pick_starting_xi may hold
MaxOther == 1

\* how many decision variables extract_solution is given when it is checked alone
MaxVars == 3

\* how many rows the players frame has when the scoring models are checked alone
MaxRows == 2

\* the last tick of the clock
MaxTime == 7

\* how many calls of acquire() or of a request method are made in all
MaxCalls == 4

\* how many coroutines share a limiter
MaxCoros == 2

\* how many players the bootstrap data lists when histories are collected
MaxPlayers == 2

\* the last gameweek the season reaches
MaxGameweek == 2

----------------------------------------------------------------------------
(* Program constants *)

SQUAD_SIZE == 15
T_GK == 1
T_DEF == 2
T_MID == 3
T_FWD == 4
\* var.value() is kept in tenths: the value 1.0 of a variable
ONE == 10
\* var.value() of a variable the solver has not set (Python None)
NoValue == -1
\* a field that pd.to_numeric(errors="coerce") turns into NaN
NaN == -999
XI_SIZE == 11

\* [(1,2),(2,5),(3,5),(4,3)]
\* a slip: one defender fewer, the quotas sum to 14
QUOTAS_FourDefenders == <<<<T_GK, 2>>, <<T_DEF, 4>>, <<T_MID, 5>>, <<T_FWD, 3>>>>

QUOTAS == <<<<T_GK, 2>>, <<T_DEF, 5>>, <<T_MID, 5>>, <<T_FWD, 3>>>>

DEFAULT_FORMATIONS == <<<<3, 4, 3>>, <<3, 5, 2>>, <<4, 4, 2>>>>

EP_MODELS == {"fpl_ep_next", "form_ppg_blend"}

----------------------------------------------------------------------------
(* Generic helpers *)

Range(s) == {s[i] : i \in DOMAIN s}

RECURSIVE SumOver(_, _)
SumOver(S, f) ==
    IF S = {} THEN 0
    ELSE LET e == CHOOSE e \in S : TRUE IN f[e] + SumOver(S \ {e}, f)

RECURSIVE SumSeq(_, _)
SumSeq(s, f) == IF s = <<>> THEN 0 ELSE f[Head(s)] + SumSeq(Tail(s), f)

RECURSIVE KSubsets(_, _)
KSubsets(S, k) ==
    IF k = 0 THEN {{}}
    ELSE IF Cardinality(S) < k THEN {}
    ELSE LET e == CHOOSE e \in S : TRUE
         IN  KSubsets(S \ {e}, k) \cup {T \cup {e} : T \in KSubsets(S \ {e}, k - 1)}

\* the subsets of S with exactly k members, through the smaller side
SubsetsOfSize(S, k) ==
    IF Cardinality(S) < k THEN {}
    ELSE IF 2 * k > Cardinality(S)
         THEN {S \ E : E \in KSubsets(S, Cardinality(S) - k)}
         ELSE KSubsets(S, k)

\* the ids of a set in ascending order: the row order of a frame
RECURSIVE Ascending(_)
Ascending(S) ==
    IF S = {} THEN <<>>
    ELSE LET m == CHOOSE m \in S : \A o \in S : m <= o
         IN  <<m>> \o Ascending(S \ {m})

\* the rows of s ordered by ascending key; among rows of equal key "keep" leaves
\* the order of s and "reverse" turns it round
RECURSIVE SortByKey(_, _, _)
SortByKey(s, key, ties) ==
    IF s = <<>> THEN <<>>
    ELSE LET n    == Len(s)
             mins == {p \in 1..n : \A q \in 1..n : key[s[p]] <= key[s[q]]}
             p    == IF ties = "keep"
                     THEN CHOOSE a \in mins : \A b \in mins : a <= b
                     ELSE CHOOSE a \in mins : \A b \in mins : a >= b
         IN  <<s[p]>> \o SortByKey(SubSeq(s, 1, p - 1) \o SubSeq(s, p + 1, n), key, ties)

\* DataFrame.head(n) for n >= 0
HeadRows(s, n) == SubSeq(s, 1, IF n < Len(s) THEN n ELSE Len(s))

----------------------------------------------------------------------------
(* The inputs of a run: pools of candidate players and configurations *)

BaseIds == 1..SQUAD_SIZE

BaseType(id) == IF id <= 2 THEN T_GK ELSE IF id <= 7 THEN T_DEF ELSE IF id <= 12 THEN T_MID ELSE T_FWD

Row(t, tm, c, ep, fm, ppg) ==
    [element_type |-> t, team |-> tm, now_cost |-> c, ep_next |-> ep,
     form |-> fm, points_per_game |-> ppg]

\* the pool of test_build_and_solve_small_lp: 2 GK, 5 DEF, 5 MID, 3 FWD, one team
\* per position
ScenarioA ==
    [id \in BaseIds |->
        LET t == BaseType(id)
        IN  Row(t, t, <<45, 45, 50, 55>>[t], <<30, 40, 45, 50>>[t],
                <<30, 40, 45, 50>>[t], <<30, 40, 45, 50>>[t])]

\* the same shape spread over five teams, with costs and scores that differ
Spread ==
    [id \in BaseIds |->
        Row(BaseType(id), ((id - 1) % 5) + 1, 40 + 5 * (id % 4),
            30 + ((7 * id) % 10), 30 + ((3 * id) % 10), 40)]

\* further candidates; element_type 5 is no position of POSITION_MAP
ExtraCatalog ==
    (16 :> Row(T_DEF, 5, 60, 70, 20, 90)) @@
    (17 :> Row(T_MID, 5, 40, 60, 60, 60)) @@
    (18 :> Row(T_GK, 2, 40, 35, NaN, 50)) @@
    (19 :> Row(T_FWD, 3, 70, 80, 80, NaN)) @@
    (20 :> Row(5, 1, 40, 99, 99, 99))

Templates == {ScenarioA, Spread}

\* a base player left out of the pool (0: none), one per position
DropChoices == {0, 1, 3, 8, 13}

ExtraSets == {E \in SUBSET (DOMAIN ExtraCatalog) : Cardinality(E) <= MaxExtra}

Pool(template, drop, extras) ==
    [id \in ((BaseIds \ {drop}) \cup extras) |->
        IF id \in BaseIds THEN template[id] ELSE ExtraCatalog[id]]

\* an "elements" list without entries
EmptyPool == [id \in {} |-> Row(0, 0, 0, 0, 0, 0)]

Pools == {Pool(t, d, E) : t \in Templates, d \in DropChoices, E \in ExtraSets} \cup {EmptyPool}

Budgets == {50, 73, 100}

TeamLimits == {3, 15}

ModelNames == EP_MODELS \cup {"xg_model"}

\* the last list names ten players, not eleven
FormationLists ==
    {DEFAULT_FORMATIONS, <<<<5, 4, 1>>, <<4, 4, 2>>>>, <<<<6, 3, 1>>>>, <<<<3, 4, 2>>>>}

\* cfg.get("output_dir", "./output")
DEFAULT_OUTPUT_DIR == "./output"

Configs ==
    [budget : Budgets, max_per_team : TeamLimits, expected_points_model : ModelNames,
     formations : FormationLists, horizon : {1}, output_dir : {DEFAULT_OUTPUT_DIR}]

\* fixtures.json is not there: pd.DataFrame()
NoFixtures == <<>>

\* no second run
NoPeer == [pc |-> "none"]

\* no collection script, limiter or client in use
NoCollector ==
    /\ clock = 0
    /\ requests = <<>>
    /\ coro = <<>>
    /\ client = "None"
    /\ gets = 0
    /\ api = <<>>
    /\ stored = <<>>
    /\ last_collected = 0
    /\ job = [pc |-> "none"]

----------------------------------------------------------------------------
(* optimiser/expected_points.py *)

\* pd.to_numeric(..., errors="coerce").fillna(0.0)
Coerce(v) == IF v = NaN THEN 0 ELSE v

\* a slip: ep_next taken once per gameweek of the horizon
FPLEpNextModel_compute_PerGameweek(players_df, fixtures_df, horizon, config) ==
    [i \in DOMAIN players_df |-> horizon * 10 * Coerce(players_df[i].ep_next)]

FPLEpNextModel_compute(players_df, fixtures_df, horizon, config) ==
    [i \in DOMAIN players_df |-> 10 * Coerce(players_df[i].ep_next)]

\* a slip: the two weights changed over
FormPPGBlendModel_compute_Swapped(players_df, fixtures_df, horizon, config) ==
    [i \in DOMAIN players_df |->
        4 * Coerce(players_df[i].form) + 6 * Coerce(players_df[i].points_per_game)]

FormPPGBlendModel_compute(players_df, fixtures_df, horizon, config) ==
    [i \in DOMAIN players_df |->
        6 * Coerce(players_df[i].form) + 4 * Coerce(players_df[i].points_per_game)]

\* a slip: an unknown name falls back to the default model
get_ep_model_Default(name) ==
    IF name = "form_ppg_blend" THEN [model |-> "FormPPGBlendModel", raised |-> ""]
    ELSE [model |-> "FPLEpNextModel", raised |-> ""]

\* the class of the model returned, or the exception raised
get_ep_model(name) ==
    IF name = "fpl_ep_next" THEN [model |-> "FPLEpNextModel", raised |-> ""]
    ELSE IF name = "form_ppg_blend" THEN [model |-> "FormPPGBlendModel", raised |-> ""]
    ELSE [model |-> "", raised |-> "ValueError"]

compute(model, players_df, fixtures_df, horizon, config) ==
    IF model = "FPLEpNextModel"
    THEN FPLEpNextModel_compute(players_df, fixtures_df, horizon, config)
    ELSE FormPPGBlendModel_compute(players_df, fixtures_df, horizon, config)

----------------------------------------------------------------------------
(* optimiser/solver.py: build_squad_lp.  An assignment of the binary variables
   is the set S of the ids whose variable is 1. *)

Objective(S, pts) == SumOver(S, pts)

Cost(S, pl) == SumOver(S, [i \in DOMAIN pl |-> pl[i].now_cost])

\* a slip: the cost in whole millions, the tenths cut off
BudgetRow_Floor(S, pl, budget_m) == Cost(S, pl) \div 10 <= budget_m

BudgetRow(S, pl, budget_m) == Cost(S, pl) <= 10 * budget_m

SquadSizeRow(S) == Cardinality(S) = SQUAD_SIZE

\* a slip: the quota as an upper limit
CountRow_AtMost(S, pl, etype, required) ==
    Cardinality({i \in S : pl[i].element_type = etype}) <= required

CountRow(S, pl, etype, required) ==
    Cardinality({i \in S : pl[i].element_type = etype}) = required

\* a slip: one player too many per team
TeamLimitRow_Loose(S, pl, team_id, max_per_team) ==
    Cardinality({i \in S : pl[i].team = team_id}) <= max_per_team + 1

TeamLimitRow(S, pl, team_id, max_per_team) ==
    Cardinality({i \in S : pl[i].team = team_id}) <= max_per_team

TeamsOf(pl) == {pl[i].team : i \in DOMAIN pl}

Satisfies(S, pl, budget_m, max_per_team) ==
    /\ BudgetRow(S, pl, budget_m)
    /\ SquadSizeRow(S)
    /\ \A q \in DOMAIN QUOTAS : CountRow(S, pl, QUOTAS[q][1], QUOTAS[q][2])
    /\ \A t \in TeamsOf(pl) : TeamLimitRow(S, pl, t, max_per_team)

\* the assignments that satisfy every row; those of SQUAD_SIZE ones are listed
\* directly, since SquadSizeRow admits no other
FeasibleSquads(pl, budget_m, max_per_team) ==
    {S \in SubsetsOfSize(DOMAIN pl, SQUAD_SIZE) : Satisfies(S, pl, budget_m, max_per_team)}

\* a slip: a gap of half a point to the best objective is let through
OptimalSquads_Gap(pl, pts, budget_m, max_per_team) ==
    LET F   == FeasibleSquads(pl, budget_m, max_per_team)
        val == [S \in F |-> Objective(S, pts)]
    IN  {S \in F : \A T \in F : val[T] <= val[S] + 50}

\* a slip: any assignment that satisfies the rows passes for optimal
OptimalSquads_AnyFeasible(pl, pts, budget_m, max_per_team) ==
    FeasibleSquads(pl, budget_m, max_per_team)

\* model.solve(): the solver returns a feasible assignment of maximal objective
OptimalSquads(pl, pts, budget_m, max_per_team) ==
    LET F   == FeasibleSquads(pl, budget_m, max_per_team)
        val == [S \in F |-> Objective(S, pts)]
    IN  {S \in F : \A T \in F : val[T] <= val[S]}

\* the value of the objective lpSum(x[id] * exp_pts) under the values of the
\* variables, in tenths of hundredths of a point
ObjectiveValue(x_vars, pts) ==
    SumOver({i \in DOMAIN x_vars : x_vars[i] # NoValue},
            [i \in DOMAIN x_vars |-> x_vars[i] * pts[i]])

ValuesOf(S, pl) == [i \in DOMAIN pl |-> IF i \in S THEN ONE ELSE 0]

Unsolved(pl) == [i \in DOMAIN pl |-> NoValue]

\* a slip: a value of 0.5 counts as chosen
Chosen_FromHalf(x_vars) ==
    {i \in DOMAIN x_vars : x_vars[i] # NoValue /\ 2 * x_vars[i] >= ONE}

(* extract_solution: the rows whose variable has a value above 0.5 *)
Chosen(x_vars) == {i \in DOMAIN x_vars : x_vars[i] # NoValue /\ 2 * x_vars[i] > ONE}

extract_solution(pl, x_vars) ==
    SelectSeq(Ascending(DOMAIN pl), LAMBDA i : i \in Chosen(x_vars))

----------------------------------------------------------------------------
(* optimiser/solver.py: pick_starting_xi *)

\* sort_values('exp_pts', ascending=False) is a quicksort: the order it leaves
\* rows of equal score in is not fixed
SortTies == {"keep", "reverse"}

OfType(rows, pl, etype) == SelectSeq(rows, LAMBDA i : pl[i].element_type = etype)

\* a slip: a sort that never looks at the score, every row a tie
ByScoreDesc_TiesOnly(rows, pts, ties) == SortByKey(rows, [i \in Range(rows) |-> 0], ties)

ByScoreDesc(rows, pts, ties) == SortByKey(rows, [i \in Range(rows) |-> 0 - pts[i]], ties)

\* a slip: the first rows of the position as they come, not the best
TopOfType_Unsorted(rows, pl, pts, etype, n, ties) == HeadRows(OfType(rows, pl, etype), n)

\* a slip: the best rows of the whole squad, the position not looked at
TopOfType_AnyType(rows, pl, pts, etype, n, ties) ==
    HeadRows(ByScoreDesc(rows, pts, ties), n)

TopOfType(rows, pl, pts, etype, n, ties) ==
    HeadRows(ByScoreDesc(OfType(rows, pl, etype), pts, ties), n)

\* pd.concat([gk,d,m,f]) for one formation
Lineup(rows, pl, pts, form, ties) ==
    TopOfType(rows, pl, pts, T_GK, 1, ties) \o
    TopOfType(rows, pl, pts, T_DEF, form[1], ties) \o
    TopOfType(rows, pl, pts, T_MID, form[2], ties) \o
    TopOfType(rows, pl, pts, T_FWD, form[3], ties)

\* a slip: the goalkeeper not counted
FillsFormation_NoKeeper(lineup, form) == Len(lineup) = form[1] + form[2] + form[3]

FillsFormation(lineup, form) == Len(lineup) = 1 + form[1] + form[2] + form[3]

\* a slip: an equal total replaces the best so far
Replaces_OrEqual(lineup, best, pts) ==
    \/ ~best.found
    \/ SumSeq(lineup, pts) >= SumSeq(best.xi, pts)

Replaces(lineup, best, pts) ==
    \/ ~best.found
    \/ SumSeq(lineup, pts) > SumSeq(best.xi, pts)

NoBest == [found |-> FALSE, xi |-> <<>>, form |-> <<>>]

\* the loop over formations, from the k-th on, with the best lineup so far
RECURSIVE ScanFormations(_, _, _, _, _, _, _)
ScanFormations(rows, pl, pts, formations, ties, k, best) ==
    IF k > Len(formations) THEN best
    ELSE LET lineup == Lineup(rows, pl, pts, formations[k], ties)
             next   == IF FillsFormation(lineup, formations[k]) /\ Replaces(lineup, best, pts)
                       THEN [found |-> TRUE, xi |-> lineup, form |-> formations[k]]
                       ELSE best
         IN  ScanFormations(rows, pl, pts, formations, ties, k + 1, next)

\* a slip: the first rows of the squad as it comes
Fallback_Unsorted(rows, pts, ties) ==
    [found |-> FALSE, xi |-> HeadRows(rows, XI_SIZE), form |-> <<-1, -1, -1>>]

Fallback(rows, pts, ties) ==
    [found |-> FALSE, xi |-> HeadRows(ByScoreDesc(rows, pts, ties), XI_SIZE),
     form |-> <<-1, -1, -1>>]

pick_starting_xi(rows, pl, pts, formations, ties) ==
    LET best == ScanFormations(rows, pl, pts, formations, ties, 1, NoBest)
    IN  IF best.found THEN best ELSE Fallback(rows, pts, ties)

----------------------------------------------------------------------------
(* scripts/optimise.py: the pieces of main() *)

\* extract_solution(...).sort_values(["element_type","exp_pts"], ascending=[True, False])
SortSquad(rows, pl, pts) ==
    SortByKey(rows, [i \in Range(rows) |-> 100000 * pl[i].element_type - pts[i]], "keep")

\* xi["exp_pts"].idxmax(): the first row of the highest score
IdxMax(lineup, pts) ==
    CHOOSE p \in DOMAIN lineup :
        /\ \A q \in DOMAIN lineup : pts[lineup[q]] <= pts[lineup[p]]
        /\ \A q \in 1..(p - 1) : pts[lineup[q]] < pts[lineup[p]]

\* a slip: every row of the highest score is flagged
CaptainFlags_AllMax(lineup, pts) ==
    [p \in DOMAIN lineup |->
        IF \A q \in DOMAIN lineup : pts[lineup[q]] <= pts[lineup[p]] THEN 1 ELSE 0]

CaptainFlags(lineup, pts) ==
    IF lineup = <<>> THEN <<>>
    ELSE LET cap_idx == IdxMax(lineup, pts)
         IN  [p \in DOMAIN lineup |-> IF p = cap_idx THEN 1 ELSE 0]

\* the "captain" entry: the name of the first flagged row, None (0) without one
CaptainOf(lineup, flags) ==
    IF \E p \in DOMAIN flags : flags[p] = 1
    THEN lineup[CHOOSE p \in DOMAIN flags : flags[p] = 1 /\ \A q \in 1..(p - 1) : flags[q] # 1]
    ELSE 0

NoSummary ==
    [formation_used |-> <<>>, total_expected_points_xi |-> 0, captain |-> 0, ep_model |-> ""]

Summary(lineup, flags, form, pts, ep_name) ==
    [formation_used |-> form,
     total_expected_points_xi |-> IF lineup = <<>> THEN 0 ELSE SumSeq(lineup, pts),
     captain |-> CaptainOf(lineup, flags),
     ep_model |-> ep_name]

OutputFiles == {"squad.csv", "starting_xi.csv", "summary.json"}

\* the output directories a configuration may name
OutputDirs == {DEFAULT_OUTPUT_DIR, "./output_b"}

\* the content of the three files of a directory; nothing written yet
NoFiles == [squad_csv |-> <<>>, starting_xi_csv |-> <<>>, summary_json |-> NoSummary]

EmptyDisk == [d \in OutputDirs |-> NoFiles]

\* the rows of starting_xi.csv: the lineup with its is_captain column
XiCsv(lineup, flags) == [p \in DOMAIN lineup |-> <<lineup[p], flags[p]>>]

\* a file of a directory rewritten, the others left as they are
WriteFile(files, dir, name, content) ==
    [files EXCEPT ![dir] = [@ EXCEPT ![name] = content]]

----------------------------------------------------------------------------
(* One run of main() *)

Init ==
    /\ pc = "start"
    /\ players \in Pools
    /\ cfg \in Configs
    /\ exp_pts = <<>>
    /\ status = ""
    /\ x = <<>>
    /\ squad = <<>>
    /\ xi = <<>>
    /\ formation_used = <<>>
    /\ is_captain = <<>>
    /\ outputs = {}
    /\ summary = NoSummary
    /\ ep_model = ""
    /\ error = ""
    /\ steps = <<>>
    /\ fixtures = NoFixtures
    /\ peer = NoPeer
    /\ disk = EmptyDisk
    /\ NoCollector

Abort(exc) ==
    /\ pc' = "aborted"
    /\ error' = exc

\* lines 30-33: bootstrap-static.json is not there
MissingBootstrap ==
    /\ pc = "start"
    /\ Abort("SystemExit")
    /\ steps' = Append(steps, "load")
    /\ UNCHANGED <<players, cfg, exp_pts, status, x, squad, xi, formation_used,
                   is_captain, outputs, summary, ep_model>>
    /\ UNCHANGED <<fixtures, peer, disk>>
    /\ UNCHANGED collectVars

\* a slip: a frame without rows is taken to have its columns all the same
LoadData_AnyFrame ==
    /\ pc = "start"
    /\ pc' = "loaded"
    /\ steps' = Append(steps, "load")
    /\ UNCHANGED <<players, cfg, exp_pts, status, x, squad, xi, formation_used,
                   is_captain, outputs, summary, ep_model, error, fixtures, peer, disk>>
    /\ UNCHANGED collectVars

\* lines 34-40: the players frame; a frame built from no elements has no columns
LoadData ==
    /\ pc = "start"
    /\ IF DOMAIN players = {} THEN Abort("KeyError")
       ELSE pc' = "loaded" /\ error' = error
    /\ steps' = Append(steps, "load")
    /\ UNCHANGED <<players, cfg, exp_pts, status, x, squad, xi, formation_used,
                   is_captain, outputs, summary, ep_model>>
    /\ UNCHANGED <<fixtures, peer, disk>>
    /\ UNCHANGED collectVars

\* lines 42-44
ScorePlayers ==
    /\ pc = "loaded"
    /\ LET got == get_ep_model(cfg.expected_points_model)
       IN  IF got.raised # ""
           THEN /\ Abort(got.raised)
                /\ UNCHANGED <<ep_model, exp_pts>>
           ELSE /\ ep_model' = got.model
                /\ exp_pts' = compute(got.model, players, fixtures, cfg.horizon, cfg)
                /\ pc' = "scored"
                /\ error' = error
    /\ steps' = Append(steps, "score")
    /\ UNCHANGED <<players, cfg, status, x, squad, xi, formation_used, is_captain,
                   outputs, summary>>
    /\ UNCHANGED <<fixtures, peer, disk>>
    /\ UNCHANGED collectVars

\* slips: the run goes on after a status other than Optimal
AcceptsStatus_Solved(st) == st # "Not Solved"

AcceptsStatus_Any(st) == TRUE

AcceptsStatus_Feasible(st) == st \in {"Optimal", "Not Solved"}

\* lines 51-52: the statuses that let the run go on
AcceptsStatus(st) == st = "Optimal"

\* lines 49-52 once the solver has answered
AfterSolve(st, values) ==
    /\ status' = st
    /\ x' = values
    /\ IF AcceptsStatus(st) THEN pc' = "solved" /\ error' = error
       ELSE Abort("SystemExit")
    /\ steps' = Append(steps, "solve")
    /\ UNCHANGED <<players, cfg, exp_pts, squad, xi, formation_used, is_captain,
                   outputs, summary, ep_model>>
    /\ UNCHANGED <<fixtures, peer, disk>>
    /\ UNCHANGED collectVars

\* lines 46-52, the solver proving an assignment optimal
SolveOptimal ==
    /\ pc = "scored"
    /\ \E S \in OptimalSquads(players, exp_pts, cfg.budget, cfg.max_per_team) :
          AfterSolve("Optimal", ValuesOf(S, players))

\* lines 46-52, the solver finding that no assignment satisfies the rows
SolveInfeasible ==
    /\ pc = "scored"
    /\ FeasibleSquads(players, cfg.budget, cfg.max_per_team) = {}
    /\ AfterSolve("Infeasible", Unsolved(players))

\* lines 46-52, the solver stopped by a limit before it has an answer: the
\* variables hold the best assignment found so far, or nothing
SolveStopped ==
    /\ pc = "scored"
    /\ \E values \in {Unsolved(players)} \cup
                     {ValuesOf(S, players) :
                        S \in FeasibleSquads(players, cfg.budget, cfg.max_per_team)} :
          AfterSolve("Not Solved", values)

\* line 54
ExtractSquad ==
    /\ pc = "solved"
    /\ squad' = SortSquad(extract_solution(players, x), players, exp_pts)
    /\ pc' = "extracted"
    /\ steps' = Append(steps, "extract")
    /\ UNCHANGED <<players, cfg, exp_pts, status, x, xi, formation_used, is_captain,
                   outputs, summary, ep_model, error>>
    /\ UNCHANGED <<fixtures, peer, disk>>
    /\ UNCHANGED collectVars

\* lines 55-62
PickXI ==
    /\ pc = "extracted"
    /\ \E ties \in SortTies :
          \E got \in {pick_starting_xi(squad, players, exp_pts, cfg.formations, ties)} :
              /\ xi' = got.xi
              /\ formation_used' = got.form
              /\ is_captain' = CaptainFlags(got.xi, exp_pts)
    /\ pc' = "picked"
    /\ steps' = Append(steps, "pick_xi")
    /\ UNCHANGED <<players, cfg, exp_pts, status, x, squad, outputs, summary,
                   ep_model, error>>
    /\ UNCHANGED <<fixtures, peer, disk>>
    /\ UNCHANGED collectVars

\* lines 64-77, with no other run under way
WriteOutputs ==
    /\ pc = "picked"
    /\ outputs' = OutputFiles
    /\ summary' = Summary(xi, is_captain, formation_used, exp_pts, cfg.expected_points_model)
    /\ disk' = [disk EXCEPT ![cfg.output_dir] =
                  [squad_csv |-> squad, starting_xi_csv |-> XiCsv(xi, is_captain),
                   summary_json |-> summary']]
    /\ pc' = "done"
    /\ steps' = Append(steps, "write")
    /\ UNCHANGED <<players, cfg, exp_pts, status, x, squad, xi, formation_used,
                   is_captain, ep_model, error>>
    /\ UNCHANGED <<fixtures, peer>>
    /\ UNCHANGED collectVars

\* lines 64-66 on their own
WriteSquadCsv ==
    /\ pc = "picked"
    /\ disk' = WriteFile(disk, cfg.output_dir, "squad_csv", squad)
    /\ outputs' = outputs \cup {"squad.csv"}
    /\ pc' = "squad_written"
    /\ UNCHANGED <<players, cfg, exp_pts, status, x, squad, xi, formation_used,
                   is_captain, summary, ep_model, error, steps, fixtures, peer>>
    /\ UNCHANGED collectVars

\* lines 65-67 on their own
WriteXiCsv ==
    /\ pc = "squad_written"
    /\ disk' = WriteFile(disk, cfg.output_dir, "starting_xi_csv", XiCsv(xi, is_captain))
    /\ outputs' = outputs \cup {"starting_xi.csv"}
    /\ pc' = "xi_written"
    /\ UNCHANGED <<players, cfg, exp_pts, status, x, squad, xi, formation_used,
                   is_captain, summary, ep_model, error, steps, fixtures, peer>>
    /\ UNCHANGED collectVars

\* lines 69-77 on their own
WriteSummaryJson ==
    /\ pc = "xi_written"
    /\ summary' = Summary(xi, is_captain, formation_used, exp_pts, cfg.expected_points_model)
    /\ disk' = WriteFile(disk, cfg.output_dir, "summary_json", summary')
    /\ outputs' = outputs \cup {"summary.json"}
    /\ pc' = "done"
    /\ steps' = Append(steps, "write")
    /\ UNCHANGED <<players, cfg, exp_pts, status, x, squad, xi, formation_used,
                   is_captain, ep_model, error, fixtures, peer>>
    /\ UNCHANGED collectVars

Next ==
    \/ MissingBootstrap
    \/ LoadData
    \/ ScorePlayers
    \/ SolveOptimal
    \/ SolveInfeasible
    \/ ExtractSquad
    \/ PickXI
    \/ WriteOutputs

Spec == Init /\ [][Next]_vars

\* the run with a solver that a time limit may stop
NextLimit == Next \/ SolveStopped

SpecLimit == Init /\ [][NextLimit]_vars

----------------------------------------------------------------------------
(* pick_starting_xi and the rest of main() on squads of any shape: up to the
   quota of each position (the first rows of each group of BaseIds) and up to
   MaxOther rows of no known position *)

OtherIds == (SQUAD_SIZE + 1)..(SQUAD_SIZE + MaxOther)

GroupIds(etype) == {id \in BaseIds : BaseType(id) = etype}

\* the n first ids of S
FirstIds(S, n) == {id \in S : Cardinality({o \in S : o < id}) < n}

Shapes ==
    {FirstIds(GroupIds(T_GK), g) \cup FirstIds(GroupIds(T_DEF), d) \cup
     FirstIds(GroupIds(T_MID), m) \cup FirstIds(GroupIds(T_FWD), f) \cup
     FirstIds(OtherIds, o) :
        g \in 0..QUOTAS[1][2], d \in 0..QUOTAS[2][2], m \in 0..QUOTAS[3][2],
        f \in 0..QUOTAS[4][2], o \in 0..MaxOther}

SquadRows(ids) ==
    [id \in ids |-> IF id \in BaseIds THEN Spread[id] ELSE Row(5, 1, 40, 0, 0, 0)]

\* exp_pts columns: the scores of Scenario A, one score for all, scores that differ
ScoreTables ==
    {[id \in BaseIds \cup OtherIds |->
         IF id \in BaseIds THEN <<300, 400, 450, 500>>[BaseType(id)] ELSE 600],
     [id \in BaseIds \cup OtherIds |-> 400],
     [id \in BaseIds \cup OtherIds |-> 300 + 10 * ((7 * id) % 10)]}

XIFormationLists ==
    {DEFAULT_FORMATIONS,
     <<<<4, 4, 2>>, <<3, 5, 2>>, <<3, 4, 3>>>>,
     <<<<5, 4, 1>>, <<4, 5, 1>>, <<5, 3, 2>>>>,
     <<<<6, 3, 1>>, <<2, 5, 3>>>>,
     <<>>}

XIConfigs ==
    [budget : {100}, max_per_team : {3}, expected_points_model : {"fpl_ep_next"},
     formations : XIFormationLists, horizon : {1}, output_dir : {DEFAULT_OUTPUT_DIR}]

InitXI ==
    /\ pc = "extracted"
    /\ \E ids \in Shapes, table \in ScoreTables :
          /\ players = SquadRows(ids)
          /\ exp_pts = [id \in ids |-> table[id]]
          /\ squad = Ascending(ids)
    /\ cfg \in XIConfigs
    /\ status = ""
    /\ x = <<>>
    /\ xi = <<>>
    /\ formation_used = <<>>
    /\ is_captain = <<>>
    /\ outputs = {}
    /\ summary = NoSummary
    /\ ep_model = ""
    /\ error = ""
    /\ steps = <<>>
    /\ fixtures = NoFixtures
    /\ peer = NoPeer
    /\ disk = EmptyDisk
    /\ NoCollector

NextXI == PickXI \/ WriteOutputs

SpecXI == InitXI /\ [][NextXI]_vars

----------------------------------------------------------------------------
(* Two runs of main(): the local names of the one that is not on the processor
   are kept in peer *)

Locals ==
    [pc |-> pc, players |-> players, cfg |-> cfg, exp_pts |-> exp_pts,
     status |-> status, x |-> x, squad |-> squad, xi |-> xi,
     formation_used |-> formation_used, is_captain |-> is_captain,
     outputs |-> outputs, summary |-> summary, ep_model |-> ep_model,
     error |-> error, steps |-> steps, fixtures |-> fixtures]

\* the local names of a run that has got as far as `at`
StartLocals(pl, c, fx, at, taken) ==
    [pc |-> at, players |-> pl, cfg |-> c, exp_pts |-> <<>>, status |-> "",
     x |-> <<>>, squad |-> <<>>, xi |-> <<>>, formation_used |-> <<>>,
     is_captain |-> <<>>, outputs |-> {}, summary |-> NoSummary, ep_model |-> "",
     error |-> "", steps |-> taken, fixtures |-> fx]

\* the processor passes from one run to the other; the disk is not part of
\* either
Switch ==
    /\ peer.pc # "none"
    /\ peer' = Locals
    /\ pc' = peer.pc
    /\ players' = peer.players
    /\ cfg' = peer.cfg
    /\ exp_pts' = peer.exp_pts
    /\ status' = peer.status
    /\ x' = peer.x
    /\ squad' = peer.squad
    /\ xi' = peer.xi
    /\ formation_used' = peer.formation_used
    /\ is_captain' = peer.is_captain
    /\ outputs' = peer.outputs
    /\ summary' = peer.summary
    /\ ep_model' = peer.ep_model
    /\ error' = peer.error
    /\ steps' = peer.steps
    /\ fixtures' = peer.fixtures
    /\ UNCHANGED disk
    /\ UNCHANGED collectVars

\* the pool of Scenario A with a third goalkeeper, better than the two it has:
\* two squads share the best objective
TiedPool == Pool(ScenarioA, 0, {18})

TwoConfigs ==
    [budget : {50, 100}, max_per_team : {15}, expected_points_model : {"fpl_ep_next"},
     formations : {DEFAULT_FORMATIONS, <<<<4, 4, 2>>>>}, horizon : {1},
     output_dir : OutputDirs]

InitTwo ==
    \E c1, c2 \in TwoConfigs :
        /\ pc = "start"
        /\ players = TiedPool
        /\ cfg = c1
        /\ fixtures = NoFixtures
        /\ peer = StartLocals(TiedPool, c2, NoFixtures, "start", <<>>)
        /\ exp_pts = <<>>
        /\ status = ""
        /\ x = <<>>
        /\ squad = <<>>
        /\ xi = <<>>
        /\ formation_used = <<>>
        /\ is_captain = <<>>
        /\ outputs = {}
        /\ summary = NoSummary
        /\ ep_model = ""
        /\ error = ""
        /\ steps = <<>>
        /\ disk = EmptyDisk
        /\ NoCollector

\* the steps of either run, the files written one at a time
NextTwo ==
    \/ LoadData
    \/ ScorePlayers
    \/ SolveOptimal
    \/ SolveInfeasible
    \/ ExtractSquad
    \/ PickXI
    \/ WriteSquadCsv
    \/ WriteXiCsv
    \/ WriteSummaryJson
    \/ Switch

SpecTwo == InitTwo /\ [][NextTwo]_vars

----------------------------------------------------------------------------
(* The scoring models on frames of any field: two calls of compute on the same
   players, each with a horizon and a fixtures frame of its own *)

\* form: not a number, 0.0, 8.0
FormValues == {NaN, 0, 80}

\* points_per_game: not a number, 5.0
PpgValues == {NaN, 50}

ScoreRows == {Row(T_MID, 1, 50, 30, fm, ppg) : fm \in FormValues, ppg \in PpgValues}

ScorePools == UNION {[1..n -> ScoreRows] : n \in 1..MaxRows}

Horizons == {1, 3}

\* no fixtures.json, or one with a fixture
FixtureFrames == {NoFixtures, <<[event |-> 1, team_h |-> 1, team_a |-> 2]>>}

ScoreConfig(name, h) ==
    [budget |-> 100, max_per_team |-> 3, expected_points_model |-> name,
     formations |-> DEFAULT_FORMATIONS, horizon |-> h, output_dir |-> DEFAULT_OUTPUT_DIR]

InitScore ==
    \E pl \in ScorePools, name \in EP_MODELS, h1, h2 \in Horizons, f1, f2 \in FixtureFrames :
        /\ pc = "loaded"
        /\ players = pl
        /\ cfg = ScoreConfig(name, h1)
        /\ fixtures = f1
        /\ peer = StartLocals(pl, ScoreConfig(name, h2), f2, "loaded", <<"load">>)
        /\ exp_pts = <<>>
        /\ status = ""
        /\ x = <<>>
        /\ squad = <<>>
        /\ xi = <<>>
        /\ formation_used = <<>>
        /\ is_captain = <<>>
        /\ outputs = {}
        /\ summary = NoSummary
        /\ ep_model = ""
        /\ error = ""
        /\ steps = <<"load">>
        /\ disk = EmptyDisk
        /\ NoCollector

NextScore == ScorePlayers \/ Switch

SpecScore == InitScore /\ [][NextScore]_vars

----------------------------------------------------------------------------
(* extract_solution on variables of any value: the solver answers in floating
   point, so a variable may come back near 0 or 1 rather than on it *)

\* None, 0.0, 0.4, 0.5, 0.6, 1.0
VarValues == {NoValue, 0, 4, 5, 6, ONE}

ExtractPools == {[id \in 1..n |-> Spread[id]] : n \in 1..MaxVars}

InitExtract ==
    /\ pc = "solved"
    /\ players \in ExtractPools
    /\ cfg \in [budget : {100}, max_per_team : {3}, expected_points_model : {"fpl_ep_next"},
                formations : {DEFAULT_FORMATIONS}, horizon : {1},
                output_dir : {DEFAULT_OUTPUT_DIR}]
    /\ exp_pts = compute("FPLEpNextModel", players, fixtures, cfg.horizon, cfg)
    /\ status = "Optimal"
    /\ x \in [DOMAIN players -> VarValues]
    /\ squad = <<>>
    /\ xi = <<>>
    /\ formation_used = <<>>
    /\ is_captain = <<>>
    /\ outputs = {}
    /\ summary = NoSummary
    /\ ep_model = "FPLEpNextModel"
    /\ error = ""
    /\ steps = <<"load", "score", "solve">>
    /\ fixtures = NoFixtures
    /\ peer = NoPeer
    /\ disk = EmptyDisk
    /\ NoCollector

NextExtract == ExtractSquad

SpecExtract == InitExtract /\ [][NextExtract]_vars

----------------------------------------------------------------------------
(* src/fpl/api/client.py: RateLimiter *)

\* self.window = timedelta(minutes=1), in ticks
WINDOW == 3

\* RateLimiter(requests_per_minute=2)
requests_per_minute == 2

\* a purge that also drops the timestamp exactly one window old
Purge_Inclusive(reqs, now) == SelectSeq(reqs, LAMBDA t : t > now - WINDOW)

\* while self.requests and self.requests[0] < now - self.window: popleft()
RECURSIVE Purge(_, _)
Purge(reqs, now) ==
    IF reqs # <<>> /\ Head(reqs) < now - WINDOW THEN Purge(Tail(reqs), now) ELSE reqs

\* wait_seconds, 0 when the deque is below the limit
WaitSeconds(reqs, now) ==
    IF Len(reqs) >= requests_per_minute THEN (Head(reqs) + WINDOW) - now ELSE 0

\* no response received
NoResponse == [status |-> 0, exc |-> "", json_ok |-> FALSE]

\* the frame of a coroutine that is in no call
IdleFrame(op) ==
    [pc |-> "idle", op |-> op, now |-> 0, wake |-> 0, before |-> <<>>, calls |-> 0,
     result |-> "", response |-> NoResponse]

InCall(c) == coro[c].pc \in {"sleeping", "getting"}

\* the calls made so far
Calls == Cardinality(UNION {{<<c, k>> : k \in 1..coro[c].calls} : c \in DOMAIN coro})

\* a call may start while the clock leaves room for its sleep
MayCall(c) ==
    /\ ~InCall(c)
    /\ Calls < MaxCalls
    /\ clock + WINDOW <= MaxTime

\* acquire() came to its end: a caller of acquire() has its return, _request goes
\* on to the GET
AfterAcquire(c, frame) ==
    IF frame.op = "acquire"
    THEN /\ coro' = [coro EXCEPT ![c] = [frame EXCEPT !.pc = "returned"]]
         /\ gets' = gets
    ELSE /\ coro' = [coro EXCEPT ![c] = [frame EXCEPT !.pc = "getting"]]
         /\ gets' = gets + 1

\* lines 41-57 up to the sleep, or to the end when there is none; the clock may
\* move on between the two readings of datetime.now()
AcquireEnter(c) ==
    LET now   == clock
        kept  == Purge(requests, now)
        wait  == WaitSeconds(kept, now)
        frame == [coro[c] EXCEPT !.now = now, !.before = requests,
                                 !.calls = @ + 1, !.result = ""]
    IN  IF wait > 0
        THEN /\ requests' = kept
             /\ coro' = [coro EXCEPT ![c] = [frame EXCEPT !.pc = "sleeping",
                                                          !.wake = now + wait]]
             /\ UNCHANGED <<clock, gets>>
        ELSE \E t \in {clock, clock + 1} :
                /\ t <= MaxTime
                /\ requests' = Append(kept, t)
                /\ clock' = t
                /\ AfterAcquire(c, frame)

\* await limiter.acquire() by a caller of its own
Acquire(c) ==
    /\ coro[c].op = "acquire"
    /\ MayCall(c)
    /\ AcquireEnter(c)
    /\ UNCHANGED <<client, api, stored, last_collected, job>>
    /\ UNCHANGED runVars

\* lines 53-57: asyncio.sleep is over, the request is recorded
AcquireWake(c) ==
    /\ c \in DOMAIN coro
    /\ coro[c].pc = "sleeping"
    /\ clock >= coro[c].wake
    /\ requests' = Append(requests, clock)
    /\ AfterAcquire(c, coro[c])
    /\ UNCHANGED <<clock, client, api, stored, last_collected, job>>
    /\ UNCHANGED runVars

Tick ==
    /\ clock < MaxTime
    /\ clock' = clock + 1
    /\ UNCHANGED <<requests, coro, client, gets, api, stored, last_collected, job>>
    /\ UNCHANGED runVars

\* no run of the optimiser
NoRun ==
    /\ pc = "none"
    /\ players = EmptyPool
    /\ cfg = <<>>
    /\ exp_pts = <<>>
    /\ status = ""
    /\ x = <<>>
    /\ squad = <<>>
    /\ xi = <<>>
    /\ formation_used = <<>>
    /\ is_captain = <<>>
    /\ outputs = {}
    /\ summary = NoSummary
    /\ ep_model = ""
    /\ error = ""
    /\ steps = <<>>
    /\ fixtures = NoFixtures
    /\ peer = NoPeer
    /\ disk = EmptyDisk

\* a limiter just made, and the coroutines that are to call acquire()
InitLimiter ==
    /\ NoRun
    /\ clock = 0
    /\ requests = <<>>
    /\ \E n \in 1..MaxCoros : coro = [c \in 1..n |-> IdleFrame("acquire")]
    /\ client = "None"
    /\ gets = 0
    /\ api = <<>>
    /\ stored = <<>>
    /\ last_collected = 0
    /\ job = [pc |-> "none"]

NextLimiter ==
    \/ \E c \in DOMAIN coro : Acquire(c)
    \/ \E c \in DOMAIN coro : AcquireWake(c)
    \/ Tick

SpecLimiter == InitLimiter /\ [][NextLimiter]_vars

\* the clock runs and the event loop resumes a coroutine whose sleep is over
FairLimiter ==
    /\ SpecLimiter
    /\ WF_vars(Tick)
    /\ \A c \in 1..MaxCoros : WF_vars(AcquireWake(c))

----------------------------------------------------------------------------
(* src/fpl/api/client.py: FPLClient *)

\* what self.client.get(url) may give: a response with a status code and a body
\* that is JSON or not, or a transport failure
StatusCodes == {200, 400, 403, 404, 429, 500, 503}

Responses ==
    [status : StatusCodes, exc : {""}, json_ok : BOOLEAN]
        \cup [status : {0}, exc : {"ConnectError", "ReadTimeout"}, json_ok : {FALSE}]

\* the exceptions that are subclasses of httpx.HTTPError
HTTPErrors == {"HTTPStatusError", "ConnectError", "ReadTimeout"}

\* lines 113-148: what the body of the try raises ("" when it returns)
Raised(resp) ==
    IF resp.exc # "" THEN resp.exc
    ELSE IF resp.status = 404 THEN "NotFoundError"
    ELSE IF resp.status = 429 THEN "RateLimitError"
    ELSE IF resp.status >= 500 THEN "ServerError"
    ELSE IF resp.status >= 400 THEN "HTTPStatusError"
    ELSE IF ~resp.json_ok THEN "JSONDecodeError"
    ELSE ""

\* an except clause that wraps every exception
RequestResult_WrapAll(resp) == IF Raised(resp) = "" THEN "json" ELSE "FPLAPIError"

\* lines 113-163: the result of _request, "json" or the exception it raises
RequestResult(resp) ==
    IF Raised(resp) \in HTTPErrors THEN "FPLAPIError"
    ELSE IF Raised(resp) = "" THEN "json"
    ELSE Raised(resp)

\* __aenter__
Enter ==
    /\ client = "None"
    /\ client' = "AsyncClient"
    /\ UNCHANGED <<clock, requests, coro, gets, api, stored, last_collected, job>>
    /\ UNCHANGED runVars

\* a _request that takes its place at the limiter before it looks at self.client
Request_AcquireFirst(c) ==
    /\ coro[c].op = "request"
    /\ MayCall(c)
    /\ IF client = "None"
       THEN /\ requests' = Append(Purge(requests, clock), clock)
            /\ coro' = [coro EXCEPT ![c] = [@ EXCEPT !.pc = "raised", !.now = clock,
                            !.before = requests, !.calls = @ + 1,
                            !.result = "RuntimeError"]]
            /\ UNCHANGED <<clock, gets>>
       ELSE AcquireEnter(c)
    /\ UNCHANGED <<client, api, stored, last_collected, job>>
    /\ UNCHANGED runVars

\* a request method, lines 106-114: up to the sleep of acquire(), or to the GET
Request(c) ==
    /\ coro[c].op = "request"
    /\ MayCall(c)
    /\ IF client = "None"
       THEN /\ coro' = [coro EXCEPT ![c] = [@ EXCEPT !.pc = "raised", !.now = clock,
                            !.before = requests, !.calls = @ + 1,
                            !.result = "RuntimeError"]]
            /\ UNCHANGED <<clock, requests, gets>>
       ELSE AcquireEnter(c)
    /\ UNCHANGED <<client, api, stored, last_collected, job>>
    /\ UNCHANGED runVars

\* lines 114-163: the GET is answered, or fails
Respond(c) ==
    /\ coro[c].pc = "getting"
    /\ \E resp \in Responses :
          coro' = [coro EXCEPT ![c] =
                      [@ EXCEPT !.pc = IF RequestResult(resp) = "json" THEN "returned"
                                       ELSE "raised",
                                !.result = RequestResult(resp),
                                !.response = resp]]
    /\ UNCHANGED <<clock, requests, client, gets, api, stored, last_collected, job>>
    /\ UNCHANGED runVars

\* FPLClient(): its own limiter, no httpx client yet
InitClient ==
    /\ NoRun
    /\ clock = 0
    /\ requests = <<>>
    /\ coro = <<IdleFrame("request")>>
    /\ client = "None"
    /\ gets = 0
    /\ api = <<>>
    /\ stored = <<>>
    /\ last_collected = 0
    /\ job = [pc |-> "none"]

NextClient ==
    \/ Enter
    \/ \E c \in DOMAIN coro : Request(c)
    \/ \E c \in DOMAIN coro : AcquireWake(c)
    \/ \E c \in DOMAIN coro : Respond(c)
    \/ Tick

SpecClient == InitClient /\ [][NextClient]_vars

----------------------------------------------------------------------------
(* scripts/collect_current_season.py and scripts/update_latest_gameweeks.py.
   A history is the sequence of the rounds of its entries; the API lists one
   entry for every round up to the current gameweek.  stored is the directory
   data/current/player_histories, one history for each player id that has a
   file; last_collected is 0 while no gameweek is recorded. *)

\* the ids of data["elements"]
PlayerIds == 1..MaxPlayers

\* summary.get("history", []) of any player
ApiHistory == [r \in 1..api.current_gw |-> r]

\* the players of a list of ids that are not in done, in the list's order
RECURSIVE NotIn(_, _)
NotIn(ids, done) ==
    IF ids = <<>> THEN <<>>
    ELSE IF Head(ids) \in done THEN NotIn(Tail(ids), done)
    ELSE <<Head(ids)>> \o NotIn(Tail(ids), done)

\* the frame of a script's main_async
Job(script, to_fetch, since) ==
    [pc |-> "fetching", script |-> script, players_to_fetch |-> to_fetch,
     histories |-> {}, errors |-> 0, current_gw |-> api.current_gw,
     last_collected |-> last_collected, since_gameweek |-> since, exit |-> NoValue]

NoJobRuns == job.pc \in {"none", "done"}

\* collect_current_season.main_async, lines 164-193 and 110-124
CollectStart ==
    /\ NoJobRuns
    /\ last_collected' = api.current_gw
    /\ job' = Job("collect", NotIn([i \in PlayerIds |-> i], DOMAIN stored), 0)
    /\ UNCHANGED <<clock, requests, coro, client, gets, api, stored>>
    /\ UNCHANGED runVars

\* collect_all_player_histories, lines 134-143: one player, fetched or failed
CollectFetch ==
    /\ job.pc = "fetching"
    /\ job.script = "collect"
    /\ job.players_to_fetch # <<>>
    /\ \E fetched \in BOOLEAN :
          LET player_id == Head(job.players_to_fetch)
          IN  IF fetched
              THEN /\ stored' = (player_id :> ApiHistory) @@ stored
                   /\ job' = [job EXCEPT !.players_to_fetch = Tail(@),
                                         !.histories = @ \cup {player_id}]
              ELSE /\ stored' = stored
                   /\ job' = [job EXCEPT !.players_to_fetch = Tail(@),
                                         !.errors = @ + 1]
    /\ UNCHANGED <<clock, requests, coro, client, gets, api, last_collected>>
    /\ UNCHANGED runVars

\* collect_current_season.main_async, lines 210-217
CollectExitCode(histories) ==
    IF Cardinality(histories) = 0 /\ Cardinality(PlayerIds) > 0 THEN 2
    ELSE IF Cardinality(histories) < Cardinality(PlayerIds) THEN 1
    ELSE 0

\* collect_current_season.main_async, lines 193-217: the loop is over
CollectFinish ==
    /\ job.pc = "fetching"
    /\ job.script = "collect"
    /\ job.players_to_fetch = <<>>
    /\ job' = [job EXCEPT !.pc = "done", !.exit = CollectExitCode(job.histories)]
    /\ UNCHANGED <<clock, requests, coro, client, gets, api, stored, last_collected>>
    /\ UNCHANGED runVars

\* the values of --gameweeks
GameweeksArgs == {1, 2}

\* update_latest_gameweeks.main_async, lines 210-217
SinceGameweek(last, current_gw, gameweeks) ==
    IF last # 0
    THEN IF last >= current_gw - gameweeks THEN last ELSE current_gw - gameweeks
    ELSE 0

\* update_latest_gameweeks.main_async, lines 198-226
UpdateStart ==
    /\ NoJobRuns
    /\ \E gameweeks \in GameweeksArgs :
          LET since == SinceGameweek(last_collected, api.current_gw, gameweeks)
          IN  job' = IF since >= api.current_gw
                     THEN [Job("update", <<>>, since) EXCEPT !.pc = "done", !.exit = 0]
                     ELSE Job("update", [i \in PlayerIds |-> i], since)
    /\ UNCHANGED <<clock, requests, coro, client, gets, api, stored, last_collected>>
    /\ UNCHANGED runVars

\* update_player_history, lines 105-119: existing + the new entries
MergedHistory(existing, api_history, since) ==
    existing \o SelectSeq(api_history, LAMBDA r : r > since /\ r \notin Range(existing))

\* update_all_players, lines 162-178, with update_player_history
UpdateFetch ==
    /\ job.pc = "fetching"
    /\ job.script = "update"
    /\ job.players_to_fetch # <<>>
    /\ \E fetched \in BOOLEAN :
          LET player_id == Head(job.players_to_fetch)
              existing  == IF player_id \in DOMAIN stored THEN stored[player_id] ELSE <<>>
              merged    == MergedHistory(existing, ApiHistory, job.since_gameweek)
          IN  IF fetched
              THEN /\ stored' = IF Len(merged) > Len(existing) \/ existing = <<>>
                                THEN (player_id :> merged) @@ stored
                                ELSE stored
                   /\ job' = [job EXCEPT !.players_to_fetch = Tail(@),
                                         !.histories = @ \cup {player_id}]
              ELSE /\ stored' = stored
                   /\ job' = [job EXCEPT !.players_to_fetch = Tail(@),
                                         !.errors = @ + 1]
    /\ UNCHANGED <<clock, requests, coro, client, gets, api, last_collected>>
    /\ UNCHANGED runVars

\* update_latest_gameweeks.main_async, lines 229-261
UpdateFinish ==
    /\ job.pc = "fetching"
    /\ job.script = "update"
    /\ job.players_to_fetch = <<>>
    /\ last_collected' = job.current_gw
    /\ job' = [job EXCEPT !.pc = "done", !.exit = IF job.errors > 0 THEN 1 ELSE 0]
    /\ UNCHANGED <<clock, requests, coro, client, gets, api, stored>>
    /\ UNCHANGED runVars

\* the season moves on to its next gameweek
NextGameweek ==
    /\ api.current_gw < MaxGameweek
    /\ api' = [api EXCEPT !.current_gw = @ + 1]
    /\ UNCHANGED <<clock, requests, coro, client, gets, stored, last_collected, job>>
    /\ UNCHANGED runVars

\* an empty data directory in the season's first gameweek
InitCollect ==
    /\ NoRun
    /\ clock = 0
    /\ requests = <<>>
    /\ coro = <<>>
    /\ client = "None"
    /\ gets = 0
    /\ api = [current_gw |-> 1]
    /\ stored = <<>>
    /\ last_collected = 0
    /\ job = [pc |-> "none"]

NextCollect ==
    \/ CollectStart
    \/ CollectFetch
    \/ CollectFinish
    \/ UpdateStart
    \/ UpdateFetch
    \/ UpdateFinish
    \/ NextGameweek

SpecCollect == InitCollect /\ [][NextCollect]_vars

----------------------------------------------------------------------------
(* The properties *)

Extracted == pc \in {"extracted", "picked", "done"}

Picked == pc \in {"picked", "done"}

StepTaken(name) == \E k \in DOMAIN steps : steps[k] = name

\* the number of rows of a frame with a position, a team
RowsOfType(rows, etype) ==
    Cardinality({p \in DOMAIN rows : players[rows[p]].element_type = etype})

RowsOfTeam(rows, team_id) ==
    Cardinality({p \in DOMAIN rows : players[rows[p]].team = team_id})

RowCost(rows) == SumSeq(rows, [i \in DOMAIN players |-> players[i].now_cost])

NoRepeat(rows) == Cardinality(Range(rows)) = Len(rows)

NoResult == squad = <<>> /\ xi = <<>> /\ outputs = {} /\ summary = NoSummary

\* C1: after an Optimal solve the extracted squad has exactly 15 players: 2 GK,
\* 5 DEF, 5 MID and 3 FWD.
C1_SquadShape ==
    (status = "Optimal" /\ Extracted) =>
        /\ Len(squad) = 15
        /\ NoRepeat(squad)
        /\ Range(squad) \subseteq DOMAIN players
        /\ RowsOfType(squad, T_GK) = 2
        /\ RowsOfType(squad, T_DEF) = 5
        /\ RowsOfType(squad, T_MID) = 5
        /\ RowsOfType(squad, T_FWD) = 3

\* a squad extracted from a pool that offers more than 15 players, one of them of
\* no known position and with the highest score of the pool
C1_Witness ==
    /\ pc = "extracted"
    /\ status = "Optimal"
    /\ Len(squad) = 15
    /\ \E i \in DOMAIN players :
          /\ players[i].element_type \notin {T_GK, T_DEF, T_MID, T_FWD}
          /\ \A o \in DOMAIN players : exp_pts[o] <= exp_pts[i]

\* C2: after an Optimal solve no team of the pool has more than max_per_team
\* players in the extracted squad.
C2_TeamLimit ==
    (status = "Optimal" /\ Extracted) =>
        \A t \in TeamsOf(players) : RowsOfTeam(squad, t) <= cfg.max_per_team

\* a squad that holds max_per_team players of a team of which the pool has more
C2_Witness ==
    /\ pc = "extracted"
    /\ status = "Optimal"
    /\ \E t \in TeamsOf(players) :
          /\ RowsOfTeam(squad, t) = cfg.max_per_team
          /\ RowsOfTeam(Ascending(DOMAIN players), t) > cfg.max_per_team

\* C3: after an Optimal solve the cost of the extracted squad, sum(now_cost)/10,
\* is at most the budget.
C3_WithinBudget ==
    (status = "Optimal" /\ Extracted) => RowCost(squad) <= 10 * cfg.budget

\* a squad that uses the budget to the last tenth, picked from a larger pool
C3_Witness ==
    /\ pc = "extracted"
    /\ status = "Optimal"
    /\ RowCost(squad) = 10 * cfg.budget
    /\ Cardinality(DOMAIN players) > SQUAD_SIZE

NoAssignment == FeasibleSquads(players, cfg.budget, cfg.max_per_team) = {}

\* C4 as stated: when no assignment satisfies the rows, the solve ends with an
\* InfeasibleError and no squad.
C4_InfeasibleError ==
    (StepTaken("solve") /\ NoAssignment) => (error = "InfeasibleError" /\ squad = <<>>)

\* C4 as amended: when no assignment satisfies the rows, the status is Infeasible
\* and the run ends with SystemExit; no squad, lineup or file is produced.  (A
\* run whose status is Optimal is none of these: its variables hold an
\* assignment that satisfies the rows.)
C4_InfeasibleExits ==
    StepTaken("solve") =>
        IF status = "Optimal"
        THEN \* the variables hold an assignment that satisfies the rows
             Satisfies(Chosen(x), players, cfg.budget, cfg.max_per_team)
        ELSE NoAssignment =>
                /\ status = "Infeasible"
                /\ pc = "aborted"
                /\ error = "SystemExit"
                /\ NoResult

\* Scenario B: the pool of Scenario A with a budget of 50
C4_Witness ==
    /\ players = ScenarioA
    /\ cfg.budget = 50
    /\ cfg.max_per_team = 15
    /\ status = "Infeasible"
    /\ pc = "aborted"

StepOrder == <<"load", "score", "solve", "extract", "pick_xi", "write">>

\* C5: the steps of a run come in the order load, score, solve, extract, pick the
\* XI, write; squad, XI and files exist only after an Optimal solve, each only
\* after its step, and a run that aborts leaves none of them.
C5_StepOrder ==
    /\ Len(steps) <= Len(StepOrder)
    /\ \A k \in DOMAIN steps : steps[k] = StepOrder[k]
    /\ (StepTaken("extract") \/ StepTaken("pick_xi") \/ StepTaken("write")) =>
          status = "Optimal"
    /\ squad # <<>> => StepTaken("extract")
    /\ xi # <<>> => StepTaken("pick_xi")
    /\ (outputs # {} \/ summary # NoSummary) => StepTaken("write")
    /\ pc = "aborted" => NoResult
    /\ pc = "done" => (steps = StepOrder /\ outputs = OutputFiles)

\* a run that got through all six steps
C5_Witness ==
    /\ pc = "done"
    /\ steps = StepOrder
    /\ status = "Optimal"
    /\ Len(squad) = 15
    /\ outputs = OutputFiles

C7_ConfigurationError ==
    (StepTaken("score") /\ cfg.expected_points_model \notin EP_MODELS) =>
        (error = "ConfigurationError" /\ ep_model = "")

\* C7 as amended: an unregistered model name raises ValueError and gives no
\* model; a registered name gives the model of that variant and raises nothing.
C7_ValueError ==
    StepTaken("score") =>
        /\ cfg.expected_points_model \notin EP_MODELS =>
              (error = "ValueError" /\ ep_model = "" /\ pc = "aborted")
        /\ cfg.expected_points_model = "fpl_ep_next" =>
              (ep_model = "FPLEpNextModel" /\ error # "ValueError")
        /\ cfg.expected_points_model = "form_ppg_blend" =>
              (ep_model = "FormPPGBlendModel" /\ error # "ValueError")
        /\ (cfg.expected_points_model \in EP_MODELS /\ Len(steps) = 2) =>
              (pc = "scored" /\ error = "")

C7_Witness ==
    /\ StepTaken("score")
    /\ cfg.expected_points_model = "xg_model"
    /\ error = "ValueError"

\* the number of squad members of a position
GroupSize(etype) == RowsOfType(squad, etype)

\* each group has enough members for the formation
FormationFits(form) ==
    /\ GroupSize(T_GK) >= 1
    /\ GroupSize(T_DEF) >= form[1]
    /\ GroupSize(T_MID) >= form[2]
    /\ GroupSize(T_FWD) >= form[3]

FitIdx == {k \in DOMAIN cfg.formations : FormationFits(cfg.formations[k])}

\* C8: when a formation of the list is feasible, the lineup has exactly 11
\* players, exactly 1 GK, and the DEF, MID and FWD counts of the formation
\* returned with it.
C8_LineupShape ==
    (Picked /\ FitIdx # {}) =>
        /\ Len(xi) = 11
        /\ RowsOfType(xi, T_GK) = 1
        /\ formation_used \in Range(cfg.formations)
        /\ RowsOfType(xi, T_DEF) = formation_used[1]
        /\ RowsOfType(xi, T_MID) = formation_used[2]
        /\ RowsOfType(xi, T_FWD) = formation_used[3]

\* a lineup picked from a squad short of its quotas, for which one formation of
\* the list is feasible and another is not
C8_Witness ==
    /\ pc = "picked"
    /\ Len(squad) < SQUAD_SIZE
    /\ FitIdx # {}
    /\ FitIdx # DOMAIN cfg.formations
    /\ Len(xi) = 11

\* the sum of the n highest scores of the members of S
RECURSIVE TopSum(_, _)
TopSum(S, n) ==
    IF n = 0 \/ S = {} THEN 0
    ELSE LET m == CHOOSE m \in S : \A o \in S : exp_pts[o] <= exp_pts[m]
         IN  exp_pts[m] + TopSum(S \ {m}, n - 1)

Members(etype) == {i \in Range(squad) : players[i].element_type = etype}

\* the total of the candidate lineup of a formation
CandidateTotal(form) ==
    TopSum(Members(T_GK), 1) + TopSum(Members(T_DEF), form[1]) +
    TopSum(Members(T_MID), form[2]) + TopSum(Members(T_FWD), form[3])

BestTotal == CHOOSE b \in {CandidateTotal(cfg.formations[k]) : k \in FitIdx} :
                \A k \in FitIdx : CandidateTotal(cfg.formations[k]) <= b

FirstBest == CHOOSE k \in FitIdx :
                /\ CandidateTotal(cfg.formations[k]) = BestTotal
                /\ \A j \in FitIdx : CandidateTotal(cfg.formations[j]) = BestTotal => k <= j

\* C9: the lineup returned has the highest total among the feasible candidate
\* lineups, and of the feasible formations with that total the one listed first
\* is returned.
C9_BestFirstListed ==
    (Picked /\ FitIdx # {}) =>
        /\ SumSeq(xi, exp_pts) = BestTotal
        /\ formation_used = cfg.formations[FirstBest]

\* two different feasible formations share the highest total, and a feasible
\* formation listed before them has less
C9_Witness ==
    /\ pc = "picked"
    /\ \E j, k \in FitIdx :
          /\ j < k
          /\ cfg.formations[j] # cfg.formations[k]
          /\ CandidateTotal(cfg.formations[j]) = BestTotal
          /\ CandidateTotal(cfg.formations[k]) = BestTotal
    /\ formation_used = cfg.formations[FirstBest]

Smaller(a, b) == IF a < b THEN a ELSE b

TopByScore(rows) ==
    \A a \in Range(rows) : \A b \in Range(squad) \ Range(rows) : exp_pts[b] <= exp_pts[a]

\* C10 as stated, for the squads that have 11 players to give and a list that
\* names a formation: when no formation is feasible the lineup is the 11 best of
\* the squad and the formation result is "unknown".
C10_UnknownEleven ==
    (Picked /\ FitIdx = {} /\ Len(squad) >= XI_SIZE /\ cfg.formations # <<>>) =>
        /\ Len(xi) = 11
        /\ TopByScore(xi)
        /\ formation_used = <<"unknown">>

\* C10 as amended: when no formation is feasible the lineup is the 11 best of the
\* squad whatever their position, or the whole squad when it has fewer than 11,
\* and the formation result is [-1,-1,-1], which is no formation of the list;
\* the run goes on to write its files.
C10_FallbackLineup ==
    (Picked /\ FitIdx = {}) =>
        /\ Len(xi) = Smaller(XI_SIZE, Len(squad))
        /\ NoRepeat(xi)
        /\ Range(xi) \subseteq Range(squad)
        /\ TopByScore(xi)
        /\ formation_used = <<-1, -1, -1>>
        /\ formation_used \notin Range(cfg.formations)
        /\ error = ""
        /\ pc = "done" => (summary.formation_used = <<-1, -1, -1>> /\ outputs = OutputFiles)

\* Scenario D: a squad with one defender against the default formations, with
\* a player outside the lineup
C10_Witness ==
    /\ pc = "done"
    /\ cfg.formations = DEFAULT_FORMATIONS
    /\ GroupSize(T_DEF) = 1
    /\ GroupSize(T_GK) = 2
    /\ Len(squad) > XI_SIZE
    /\ Len(xi) = XI_SIZE
    /\ summary.formation_used = <<-1, -1, -1>>

\* the rows of the lineup flagged captain
Flagged == {p \in DOMAIN is_captain : is_captain[p] = 1}

\* C11: whenever the lineup is not empty, exactly one of its rows is flagged
\* captain and its score is at least that of every other row of the lineup, with
\* a formation and in the fallback alike; the captain of the summary is that row.
C11_OneCaptain ==
    (Picked /\ xi # <<>>) =>
        /\ DOMAIN is_captain = DOMAIN xi
        /\ \A p \in DOMAIN is_captain : is_captain[p] \in {0, 1}
        /\ Cardinality(Flagged) = 1
        /\ \A p \in Flagged : \A q \in DOMAIN xi : exp_pts[xi[q]] <= exp_pts[xi[p]]
        /\ pc = "done" => \E p \in Flagged : summary.captain = xi[p]

\* a fallback lineup in which several rows share the highest score
C11_Witness ==
    /\ pc = "done"
    /\ formation_used = <<-1, -1, -1>>
    /\ Len(xi) = XI_SIZE
    /\ Cardinality(Flagged) = 1
    /\ \E p \in Flagged : \E q \in DOMAIN xi \ {p} : exp_pts[xi[q]] = exp_pts[xi[p]]
    /\ summary.captain \in Range(xi)

\* C12: every row of the lineup returned by pick_starting_xi is a row of the
\* squad it was given and no squad member is in the lineup twice, with a
\* formation and in the fallback alike; no step changes the squad.
C12_LineupOfSquad ==
    /\ [](Picked => (Range(xi) \subseteq Range(squad) /\ NoRepeat(xi) /\ NoRepeat(squad)))
    /\ [][squad' = squad]_vars

\* a fallback lineup that holds a row of no known position, picked from a squad
\* that is still in the order it was given in
C12_Witness ==
    /\ pc = "picked"
    /\ formation_used = <<-1, -1, -1>>
    /\ Len(xi) = XI_SIZE
    /\ Len(squad) > XI_SIZE
    /\ \E p \in DOMAIN xi : players[xi[p]].element_type \notin {T_GK, T_DEF, T_MID, T_FWD}
    /\ squad = Ascending(DOMAIN players)

\* C13: the squad extracted is exactly the candidates whose variable has a value
\* above 0.5: a candidate whose variable has no value, or a value of 0.5 or less,
\* is not in it, and every candidate whose variable is above 0.5 is, once.
C13_AboveHalf ==
    pc = "extracted" =>
        /\ NoRepeat(squad)
        /\ Range(squad) \subseteq DOMAIN players
        /\ \A i \in DOMAIN players :
              /\ x[i] = NoValue => i \notin Range(squad)
              /\ (x[i] # NoValue /\ 2 * x[i] <= ONE) => i \notin Range(squad)
              /\ (x[i] # NoValue /\ 2 * x[i] > ONE) => i \in Range(squad)

\* variables without a value, of 0.5 exactly and of 0.6, the last one extracted
C13_Witness ==
    /\ pc = "extracted"
    /\ \E i, j, k \in DOMAIN players :
          /\ x[i] = NoValue
          /\ 2 * x[j] = ONE
          /\ x[k] = 6
          /\ Range(squad) = {k}

\* C14: after an Optimal solve the value of the objective is the sum of exp_pts
\* over the extracted squad, and no set of 15 candidates that satisfies the
\* budget, quota and team rows has a larger sum; for the pool of Scenario A with
\* budget 100 and a team limit of 15 the squad is the whole pool, it costs 73.0
\* and the objective is 63.5.
C14_ObjectiveIsBest ==
    (status = "Optimal" /\ pc = "extracted") =>
        /\ ObjectiveValue(x, exp_pts) = ONE * SumSeq(squad, exp_pts)
        /\ \A T \in FeasibleSquads(players, cfg.budget, cfg.max_per_team) :
              Objective(T, exp_pts) <= SumSeq(squad, exp_pts)
        /\ (players = ScenarioA /\ cfg.budget = 100 /\ cfg.max_per_team = 15) =>
              /\ Range(squad) = DOMAIN players
              /\ RowCost(squad) = 730
              /\ SumSeq(squad, exp_pts) = 6350

\* a squad picked from a larger pool, for which another set of 15 satisfies the
\* rows with a smaller sum
C14_Witness ==
    /\ status = "Optimal"
    /\ pc = "extracted"
    /\ Cardinality(DOMAIN players) > SQUAD_SIZE
    /\ ObjectiveValue(x, exp_pts) = ONE * SumSeq(squad, exp_pts)
    /\ \E T \in FeasibleSquads(players, cfg.budget, cfg.max_per_team) :
          Objective(T, exp_pts) < SumSeq(squad, exp_pts)

\* a field as the blend takes it: 0.0 for what is not a number
Numeric(v) == IF v = NaN THEN 0 ELSE v

\* C15: the blend scores a player 0.6 * form + 0.4 * points_per_game, a form or
\* points_per_game that is not a number counting as 0; form 8.0 and
\* points_per_game 5.0 give 6.8.
C15_Blend ==
    (pc = "scored" /\ ep_model = "FormPPGBlendModel") =>
        \A i \in DOMAIN players :
            LET fm  == players[i].form
                ppg == players[i].points_per_game
            IN  /\ exp_pts[i] = 6 * Numeric(fm) + 4 * Numeric(ppg)
                /\ (fm = 80 /\ ppg = 50) => exp_pts[i] = 680
                /\ (fm = NaN /\ ppg = 50) => exp_pts[i] = 200
                /\ (fm = 80 /\ ppg = NaN) => exp_pts[i] = 480
                /\ (fm = NaN /\ ppg = NaN) => exp_pts[i] = 0

\* a frame scored by the blend with a row of form 8.0 and points_per_game 5.0
\* and a row whose form is not a number
C15_Witness ==
    /\ pc = "scored"
    /\ ep_model = "FormPPGBlendModel"
    /\ \E i, j \in DOMAIN players :
          /\ players[i].form = 80
          /\ players[i].points_per_game = 50
          /\ exp_pts[i] = 680
          /\ players[j].form = NaN
          /\ players[j].points_per_game = 50
          /\ exp_pts[j] = 200

\* C16: for either variant, two calls of compute on the same players return the
\* same score for every player, whatever fixtures and horizon each was given.
C16_FixturesHorizonUnused ==
    (pc = "scored" /\ peer.pc = "scored" /\ players = peer.players /\
     ep_model = peer.ep_model) =>
        exp_pts = peer.exp_pts

\* two calls on the same players, one without fixtures and one with, and with
\* different horizons
C16_Witness ==
    /\ pc = "scored"
    /\ peer.pc = "scored"
    /\ players = peer.players
    /\ ep_model = peer.ep_model
    /\ fixtures # peer.fixtures
    /\ cfg.horizon # peer.cfg.horizon
    /\ exp_pts = peer.exp_pts
    /\ \E i \in DOMAIN players : exp_pts[i] # 0

\* the same players, scores, budget and team limit in both runs
SameSelectionInputs ==
    /\ players = peer.players
    /\ exp_pts = peer.exp_pts
    /\ cfg.budget = peer.cfg.budget
    /\ cfg.max_per_team = peer.cfg.max_per_team

PeerSolved == \E k \in DOMAIN peer.steps : peer.steps[k] = "solve"

FilesOf(run) ==
    [squad_csv |-> run.squad, starting_xi_csv |-> XiCsv(run.xi, run.is_captain),
     summary_json |-> run.summary]

\* the squad, lineup and summary of a run follow from its own players and
\* configuration
OwnResult(run) ==
    /\ run.status = "Optimal"
    /\ Range(run.squad) = Chosen(run.x)
    /\ Satisfies(Range(run.squad), run.players, run.cfg.budget, run.cfg.max_per_team)
    /\ \E ties \in SortTies :
          run.xi = pick_starting_xi(run.squad, run.players, run.exp_pts,
                                    run.cfg.formations, ties).xi
    /\ run.summary = Summary(run.xi, run.is_captain, run.formation_used, run.exp_pts,
                             run.cfg.expected_points_model)

\* C18, for two runs whose configurations list different formations: the runs
\* share nothing that either changes, so however their steps interleave, once
\* both are done the squad, lineup and summary of each follow from its own
\* players and configuration, and the three files of its output directory are
\* those that one run produced.
C18_NoSharedState ==
    (pc = "done" /\ peer.pc = "done" /\ cfg.formations # peer.cfg.formations) =>
        /\ OwnResult(Locals)
        /\ OwnResult(peer)
        /\ disk[cfg.output_dir] \in {FilesOf(Locals), FilesOf(peer)}
        /\ disk[peer.cfg.output_dir] \in {FilesOf(Locals), FilesOf(peer)}

\* the formations of the list that do not name ten outfield players
BadFormations ==
    {k \in DOMAIN cfg.formations :
        cfg.formations[k][1] + cfg.formations[k][2] + cfg.formations[k][3] # 10}

\* C19: a formation list with a triple whose DEF + MID + FWD is not 10 is
\* rejected with a ConfigurationError, and the run makes no lineup from it.
C19_BadFormationRejected ==
    (BadFormations # {} /\ StepTaken("pick_xi")) =>
        (error = "ConfigurationError" /\ xi = <<>>)

\* C20 as stated: a run given an empty pool aborts with a DataError before any
\* solve and makes no squad, lineup or summary.
C20_DataError ==
    (DOMAIN players = {} /\ StepTaken("load") /\ error # "SystemExit") =>
        (error = "DataError" /\ ~StepTaken("solve") /\ NoResult)

\* C20 as amended: a run whose bootstrap file lists no elements aborts with a
\* KeyError while the players frame is built, before scoring and before any
\* solve, and makes no squad, lineup, summary or file.
C20_EmptyPoolKeyError ==
    (DOMAIN players = {} /\ StepTaken("load") /\ error # "SystemExit") =>
        /\ error = "KeyError"
        /\ pc = "aborted"
        /\ steps = <<"load">>
        /\ exp_pts = <<>>
        /\ status = ""
        /\ x = <<>>
        /\ NoResult
        /\ disk = EmptyDisk

\* the run on an empty pool, aborted
C20_Witness ==
    /\ players = EmptyPool
    /\ pc = "aborted"
    /\ error = "KeyError"
    /\ steps = <<"load">>

\* of the recorded requests no requests_per_minute + 1 lie within one window:
\* each is a window or more after the one requests_per_minute places before it.
\* (A timestamp no longer in the deque is more than a window older than every
\* later one.)
RateRespected ==
    \A i \in DOMAIN requests :
        i > requests_per_minute => requests[i] - requests[i - requests_per_minute] >= WINDOW

SingleCaller == DOMAIN coro = {1}

\* C21: with a single caller of acquire(), at most requests_per_minute calls
\* complete within any window of one minute.
C21_SingleCallerRate == SingleCaller => RateRespected

\* the timestamps of reqs that are at most one window older than now
InsideWindow(reqs, now) == SelectSeq(reqs, LAMBDA t : t >= now - WINDOW)

\* the single caller's call has returned
Returned == SingleCaller /\ coro[1].pc = "returned"

\* C30: when a call of acquire() returns, the deque is what it was at the call's
\* start without the timestamps more than one window older than the call's start
\* time, every timestamp inside the window kept, and exactly one new timestamp
\* appended.
C30_PurgeAndAppendOne ==
    Returned =>
        LET kept == InsideWindow(coro[1].before, coro[1].now)
        IN  /\ Len(requests) = Len(kept) + 1
            /\ SubSeq(requests, 1, Len(kept)) = kept
            /\ requests[Len(requests)] >= coro[1].now

\* a returned call that found both a timestamp older than the window and one
\* exactly a window old
C30_Witness ==
    /\ Returned
    /\ \E i \in DOMAIN coro[1].before : coro[1].before[i] < coro[1].now - WINDOW
    /\ \E i \in DOMAIN coro[1].before : coro[1].before[i] = coro[1].now - WINDOW

\* C25: with several coroutines calling acquire() on one limiter, at most
\* requests_per_minute calls complete within any window of one minute.
C25_SharedRate == ~SingleCaller => RateRespected

\* every call of acquire() returns
C25_EveryCallReturns ==
    \A c \in 1..MaxCoros : (c \in DOMAIN coro /\ InCall(c)) ~> (c \in DOMAIN coro /\ ~InCall(c))

\* two coroutines slept to the same wake-up time and both recorded a request then
C25_Burst ==
    /\ requests = <<0, 1, 3, 3>>
    /\ \A c \in {1, 2} :
          c \in DOMAIN coro /\ coro[c].pc = "returned" /\ coro[c].now = 2 /\ coro[c].wake = 3

\* a request method of coroutine c is over, and it got as far as the GET
Answered(c) ==
    /\ coro[c].op = "request"
    /\ coro[c].pc \in {"returned", "raised"}
    /\ coro[c].result # "RuntimeError"

\* C22: _request raises NotFoundError on 404, RateLimitError on 429, ServerError on
\* a status of 500 or more and FPLAPIError on any other error status and on a
\* transport failure; it returns the JSON body only of a successful response; and
\* it makes at most one GET, with no retry.
C22_ErrorMapping ==
    /\ gets <= Calls
    /\ \A c \in DOMAIN coro :
          Answered(c) =>
              LET r   == coro[c].response
                  res == coro[c].result
              IN  /\ (r.exc = "" /\ r.status = 404) => res = "NotFoundError"
                  /\ (r.exc = "" /\ r.status = 429) => res = "RateLimitError"
                  /\ (r.exc = "" /\ r.status >= 500) => res = "ServerError"
                  /\ (r.exc = "" /\ r.status \in 400..499 \ {404, 429}) => res = "FPLAPIError"
                  /\ r.exc # "" => res = "FPLAPIError"
                  /\ res = "json" => (r.exc = "" /\ r.status \in 200..299 /\ r.json_ok)
                  /\ (coro[c].pc = "returned") = (res = "json")

\* a second call, answered 503 after the first was answered 200, with two GETs made
C22_Witness ==
    /\ Answered(1)
    /\ coro[1].calls = 2
    /\ gets = 2
    /\ coro[1].response.status = 503
    /\ coro[1].result = "ServerError"

\* C23: a request method called while self.client is None raises RuntimeError
\* and leaves the limiter's timestamps and the count of GETs as they were.
C23_NotEntered ==
    [][\A c \in DOMAIN coro :
          (client = "None" /\ coro'[c].calls = coro[c].calls + 1) =>
              /\ coro'[c].pc = "raised"
              /\ coro'[c].result = "RuntimeError"
              /\ requests' = requests
              /\ gets' = gets]_vars

\* a request method has raised RuntimeError on a client never entered
C23_Witness ==
    /\ client = "None"
    /\ coro[1].op = "request"
    /\ coro[1].pc = "raised"
    /\ coro[1].result = "RuntimeError"
    /\ requests = <<>>
    /\ gets = 0

\* the players that have a stored history
Collected == DOMAIN stored \cap PlayerIds

\* C24: main_async of collect_current_season returns 0 when at the end a history
\* is stored for every player, 2 when none is, and 1 when some but not all are,
\* in a first run and in a resumed one.
C24_ExitCode ==
    (job.pc = "done" /\ job.script = "collect") =>
        /\ Collected = PlayerIds => job.exit = 0
        /\ Collected = {} => job.exit = 2
        /\ (Collected # {} /\ Collected # PlayerIds) => job.exit = 1

\* C26: in a run of update_latest_gameweeks that found gameweek G recorded as last
\* collected, every player whose fetch succeeded has a stored history with an
\* entry for every round up to G.
C26_NoMissingEntry ==
    (job.pc # "none" /\ job.script = "update") =>
        \A player_id \in job.histories :
            /\ player_id \in DOMAIN stored
            /\ \A r \in 1..job.last_collected : r \in Range(stored[player_id])

\* the 11-player subsets of the squad with one goalkeeper and the DEF, MID and FWD
\* counts of form
ShapedElevens(form) ==
    {G \cup D \cup M \cup F :
        G \in SubsetsOfSize(Members(T_GK), 1), D \in SubsetsOfSize(Members(T_DEF), form[1]),
        M \in SubsetsOfSize(Members(T_MID), form[2]), F \in SubsetsOfSize(Members(T_FWD), form[3])}

\* C27: when a formation of the list is feasible, the total of the lineup returned
\* is at least the total of every 11-player subset of the squad that has one
\* goalkeeper and the DEF, MID and FWD counts of a formation of the list.
C27_GreedyLosesNothing ==
    (Picked /\ FitIdx # {}) =>
        \A k \in DOMAIN cfg.formations :
            \A E \in ShapedElevens(cfg.formations[k]) :
                Cardinality(E) = XI_SIZE => SumOver(E, exp_pts) <= SumSeq(xi, exp_pts)

\* a lineup picked from a full squad with scores that differ, of a formation that
\* is not the first of the list, while some eleven of a listed shape has less
C27_Witness ==
    /\ pc = "picked"
    /\ Len(squad) >= SQUAD_SIZE
    /\ Cardinality(FitIdx) > 1
    /\ formation_used # cfg.formations[1]
    /\ \E i, j \in Members(T_DEF) : exp_pts[i] < exp_pts[j]
    /\ \E E \in ShapedElevens(cfg.formations[1]) : SumOver(E, exp_pts) < SumSeq(xi, exp_pts)

\* what pick_starting_xi returns for the squad under a given order of the ties
PickUnder(ties) == pick_starting_xi(squad, players, exp_pts, cfg.formations, ties)

\* C28: the formation and the total returned by pick_starting_xi are those of the
\* call under any other order of the score ties.
C28_TieOrderIrrelevant ==
    (pc = "picked") =>
        \A ties \in SortTies :
            \A other \in {PickUnder(ties)} :
                /\ other.form = formation_used
                /\ SumSeq(other.xi, exp_pts) = SumSeq(xi, exp_pts)

\* a lineup for which another order of the ties picks other players
C28_Witness ==
    /\ pc = "picked"
    /\ FitIdx # {}
    /\ \E ties \in SortTies :
          /\ Range(PickUnder(ties).xi) # Range(xi)
          /\ PickUnder(ties).form = formation_used

\* the candidates of no position of POSITION_MAP
NoPosition == {i \in DOMAIN players : players[i].element_type \notin {T_GK, T_DEF, T_MID, T_FWD}}

\* C29: a candidate of no known position has a decision variable and is counted
\* by the squad-size row, but no assignment that satisfies the rows selects it.
C29_NoPositionNeverSelected ==
    (pc = "solved") =>
        \A i \in NoPosition :
            /\ i \in DOMAIN x
            /\ \A S \in SubsetsOfSize(DOMAIN players, SQUAD_SIZE) :
                  i \in S => (SquadSizeRow(S) /\ ~Satisfies(S, players, cfg.budget, cfg.max_per_team))
            /\ \A S \in FeasibleSquads(players, cfg.budget, cfg.max_per_team) : i \notin S

\* an Optimal solve over a pool with a candidate of no known position and of the
\* highest score, whose variable is 0
C29_Witness ==
    /\ pc = "solved"
    /\ status = "Optimal"
    /\ \E i \in NoPosition :
          /\ x[i] = 0
          /\ \A o \in DOMAIN players : exp_pts[o] <= exp_pts[i]

====
